---- MODULE Spec2Model ----
(***************************************************************************)
(* Model of src/main.py: the Shape class (area, circumference,            *)
(* affine_transform), create_shape and parse_csv.                         *)
(*                                                                         *)
(* Text is a sequence of one-character strings.  A Python float is an      *)
(* integer count of halves (1.0 is 2, 0.5 is 1): every coordinate the      *)
(* model parses is a whole number, so products, sums and the final         *)
(* division by 2.0 are exact, as they are in binary64 for the magnitudes   *)
(* the model reaches.  The square root of circumference() is rounded down  *)
(* to that grid.                                                           *)
(***************************************************************************)
EXTENDS Integers, Sequences, FiniteSets, TLC

VARIABLES
    \* parse_csv
    pc, exists, file, ids, shapes, areas, circumferences, out, moved,
    transformed, tarea, status, err,
    \* create_shape on one record
    line, parsed,
    \* one Shape and the calls made on it
    verts, matrix, op, res, i, acc, visited

vars == <<pc, exists, file, ids, shapes, areas, circumferences, out, moved,
          transformed, tarea, status, err, line, parsed,
          verts, matrix, op, res, i, acc, visited>>

csvVars == <<pc, exists, file, ids, shapes, areas, circumferences, out, moved,
             transformed, tarea, status, err>>
rowVars == <<line, parsed>>
shapeVars == <<verts, matrix, op, res, i, acc, visited>>

\* no value yet (None), and a value that is there
None == <<>>

Some(v) == <<v>>

Val(r) == r[1]

(***************************************************************************)
(* Numbers                                                                 *)
(***************************************************************************)
Abs(a) == IF a < 0 THEN -a ELSE a

\* the float of a whole number
FromInt(n) == 2 * n

\* float product
Mul(a, b) == (a * b) \div 2

\* x / 2.0
Half(a) == a \div 2

\* x ** 0.5 for x >= 0, rounded down to the grid
Sqrt(a) == CHOOSE k \in 0..(2 * a) : k * k <= 2 * a /\ (k + 1) * (k + 1) > 2 * a

(***************************************************************************)
(* Text                                                                    *)
(***************************************************************************)
Digits == <<"0", "1", "2", "3", "4", "5", "6", "7", "8", "9">>

IsDigit(c) == \E d \in 1..10 : Digits[d] = c

DigitVal(c) == (CHOOSE d \in 1..10 : Digits[d] = c) - 1

\* str.split(sep): the pieces between the separators, at least one piece
RECURSIVE SplitFrom(_, _, _, _)
SplitFrom(s, sep, k, cur) ==
    IF k > Len(s) THEN <<cur>>
    ELSE IF s[k] = sep THEN <<cur>> \o SplitFrom(s, sep, k + 1, <<>>)
    ELSE SplitFrom(s, sep, k + 1, Append(cur, s[k]))

Split(s, sep) == SplitFrom(s, sep, 1, <<>>)

\* the digits of an unsigned whole number, most significant first
RECURSIVE ParseDigits(_, _, _)
ParseDigits(s, k, n) ==
    IF k > Len(s) THEN [ok |-> TRUE, val |-> n]
    ELSE IF IsDigit(s[k]) THEN ParseDigits(s, k + 1, 10 * n + DigitVal(s[k]))
    ELSE [ok |-> FALSE, val |-> 0]

\* float(text): ok is FALSE where Python raises ValueError
ParseFloat(s) ==
    LET neg == Len(s) > 0 /\ s[1] = "-"
        body == IF neg THEN Tail(s) ELSE s
        d == ParseDigits(body, 1, 0)
    IN  IF Len(body) = 0 \/ ~d.ok THEN [ok |-> FALSE, val |-> 0]
        ELSE [ok |-> TRUE, val |-> IF neg THEN -FromInt(d.val) ELSE FromInt(d.val)]

\* csv.reader(csvfile, delimiter=','): the fields of one unquoted line
CsvRow(l) == IF Len(l) = 0 THEN <<>> ELSE Split(l, ",")

(***************************************************************************)
(* create_shape                                                            *)
(***************************************************************************)
\* create_shape giving up on the record at the first sub-token that is no number
RECURSIVE CreateFromBreak(_, _, _)
CreateFromBreak(row, k, vertices) ==
    IF k > Len(row) THEN vertices
    ELSE LET pair == Split(row[k], ";")
         IN  IF Len(pair) # 2 THEN CreateFromBreak(row, k + 1, vertices)
             ELSE LET x == ParseFloat(pair[1])
                      y == ParseFloat(pair[2])
                  IN  IF x.ok /\ y.ok
                      THEN CreateFromBreak(row, k + 1, Append(vertices, <<x.val, y.val>>))
                      ELSE vertices

RECURSIVE CreateFrom(_, _, _)
CreateFrom(row, k, vertices) ==
    IF k > Len(row) THEN vertices
    ELSE LET pair == Split(row[k], ";")
         IN  IF Len(pair) # 2 THEN CreateFrom(row, k + 1, vertices)
             ELSE LET x == ParseFloat(pair[1])
                      y == ParseFloat(pair[2])
                  IN  IF x.ok /\ y.ok
                      THEN CreateFrom(row, k + 1, Append(vertices, <<x.val, y.val>>))
                      ELSE CreateFrom(row, k + 1, vertices)

\* the vertex list of the Shape that create_shape(row) returns
create_shape(row) == CreateFrom(row, 1, <<>>)

(***************************************************************************)
(* Shape                                                                   *)
(***************************************************************************)
\* x0 * y1 - x1 * y0 for the edge from vertex k to vertex (k + 1) % n,
\* k counted from 0 as in the source
Term(vs, k) ==
    LET n == Len(vs)
        v0 == vs[k + 1]
        v1 == vs[((k + 1) % n) + 1]
    IN  Mul(v0[1], v1[2]) - Mul(v1[1], v0[2])

\* the loop of area() leaving before the closing edge
AreaBodyNoClose(vs, k, a) ==
    LET a2 == a + Term(vs, k)
    IN  [acc |-> a2, done |-> (k = Len(vs) - 2), i |-> IF k = Len(vs) - 2 THEN k ELSE k + 1]

\* one pass through the body of the while loop of area()
AreaBody(vs, k, a) ==
    LET a2 == a + Term(vs, k)
    IN  [acc |-> a2, done |-> (k = Len(vs) - 1), i |-> IF k = Len(vs) - 1 THEN k ELSE k + 1]

RECURSIVE AreaLoop(_, _, _)
AreaLoop(vs, k, a) ==
    LET b == AreaBody(vs, k, a)
    IN  IF b.done THEN b.acc ELSE AreaLoop(vs, b.i, b.acc)

\* area() returning the signed sum
AreaReturnSigned(a) == Half(a)

\* return abs(area) / 2.0
AreaReturn(a) == Half(Abs(a))

\* Shape.area(): ok is FALSE where it raises ValueError
area(vs) ==
    IF Len(vs) < 3 THEN [ok |-> FALSE, val |-> 0]
    ELSE [ok |-> TRUE, val |-> AreaReturn(AreaLoop(vs, 0, 0))]

\* the length of the edge from vertex k to vertex (k + 1) % n
EdgeLen(vs, k) ==
    LET n == Len(vs)
        v0 == vs[k + 1]
        v1 == vs[((k + 1) % n) + 1]
        dx == v0[1] - v1[1]
        dy == v0[2] - v1[2]
    IN  Sqrt(Mul(dx, dx) + Mul(dy, dy))

RECURSIVE CircLoop(_, _, _)
CircLoop(vs, k, c) ==
    LET c2 == c + EdgeLen(vs, k)
    IN  IF k = Len(vs) - 1 THEN c2 ELSE CircLoop(vs, k + 1, c2)

\* Shape.circumference(): ok is FALSE where it raises ValueError
circumference(vs) ==
    IF Len(vs) < 3 THEN [ok |-> FALSE, val |-> 0]
    ELSE [ok |-> TRUE, val |-> CircLoop(vs, 0, 0)]

\* affine_transform multiplying the translation by the matrix's last entry
RECURSIVE TransformFromHomogeneous(_, _, _, _)
TransformFromHomogeneous(vs, m, k, transformed_vertices) ==
    IF k > Len(vs) THEN transformed_vertices
    ELSE LET x == vs[k][1]
             y == vs[k][2]
         IN  TransformFromHomogeneous(vs, m, k + 1, Append(transformed_vertices,
                 <<Mul(m[1][1], x) + Mul(m[1][2], y) + Mul(m[1][3], m[3][3]),
                   Mul(m[2][1], x) + Mul(m[2][2], y) + Mul(m[2][3], m[3][3])>>))

\* affine_transform computing both coordinates from the first row
RECURSIVE TransformFromFirstRow(_, _, _, _)
TransformFromFirstRow(vs, m, k, transformed_vertices) ==
    IF k > Len(vs) THEN transformed_vertices
    ELSE LET x == vs[k][1]
             y == vs[k][2]
         IN  TransformFromFirstRow(vs, m, k + 1, Append(transformed_vertices,
                 <<Mul(m[1][1], x) + Mul(m[1][2], y) + m[1][3],
                   Mul(m[1][1], x) + Mul(m[1][2], y) + m[1][3]>>))

RECURSIVE TransformFrom(_, _, _, _)
TransformFrom(vs, m, k, transformed_vertices) ==
    IF k > Len(vs) THEN transformed_vertices
    ELSE LET x == vs[k][1]
             y == vs[k][2]
         IN  TransformFrom(vs, m, k + 1, Append(transformed_vertices,
                 <<Mul(m[1][1], x) + Mul(m[1][2], y) + m[1][3],
                   Mul(m[2][1], x) + Mul(m[2][2], y) + m[2][3]>>))

\* Shape.affine_transform(): the vertex list of the new Shape
affine_transform(vs, m) == TransformFrom(vs, m, 1, <<>>)

\* a matrix of whole numbers, as floats
Matrix(r1, r2, r3) ==
    <<<<FromInt(r1[1]), FromInt(r1[2]), FromInt(r1[3])>>,
      <<FromInt(r2[1]), FromInt(r2[2]), FromInt(r2[3])>>,
      <<FromInt(r3[1]), FromInt(r3[2]), FromInt(r3[3])>>>>

\* the matrix parse_csv applies
transformation_matrix == Matrix(<<4, 0, -3>>, <<-1, 2, 2>>, <<0, 0, 1>>)

(***************************************************************************)
(* create_shape on one record                                              *)
(***************************************************************************)
MaxLineLen == 7

Alphabet == {"1", "2", "-", ";", ","}

\* every line of at most MaxLineLen characters
Lines == UNION {[1..n -> Alphabet] : n \in 0..MaxLineLen}

csvOff ==
    /\ pc = "off" /\ exists = FALSE /\ file = <<>> /\ ids = <<>>
    /\ shapes = <<>> /\ areas = <<>> /\ circumferences = <<>> /\ out = <<>>
    /\ moved = <<>> /\ transformed = None /\ tarea = None /\ status = None
    /\ err = ""

rowOff == line = <<>> /\ parsed = None

shapeOff ==
    /\ verts = <<>> /\ matrix = None /\ op = "off" /\ res = None
    /\ i = 0 /\ acc = 0 /\ visited = <<>>

InitRow ==
    /\ line \in Lines
    /\ parsed = None
    /\ csvOff /\ shapeOff

\* create_shape(row) for the record read from line
CreateShape ==
    /\ parsed = None
    /\ parsed' = Some(create_shape(CsvRow(line)))
    /\ UNCHANGED <<line, csvVars, shapeVars>>

NextRow == CreateShape

SpecRow == InitRow /\ [][NextRow]_vars

\* the well-formed tokens and fields, stated on the text
IsNumber(t) ==
    /\ Len(t) >= 1
    /\ t[1] = "-" => Len(t) >= 2
    /\ \A k \in 1..Len(t) : IsDigit(t[k]) \/ (k = 1 /\ t[k] = "-")

RECURSIVE Pow10(_)
Pow10(e) == IF e = 0 THEN 1 ELSE 10 * Pow10(e - 1)

RECURSIVE PlaceSum(_, _)
PlaceSum(t, k) ==
    IF k > Len(t) THEN 0
    ELSE (IF IsDigit(t[k]) THEN DigitVal(t[k]) * Pow10(Len(t) - k) ELSE 0) + PlaceSum(t, k + 1)

NumberOf(t) == IF t[1] = "-" THEN -FromInt(PlaceSum(t, 1)) ELSE FromInt(PlaceSum(t, 1))

Semis(f) == {k \in 1..Len(f) : f[k] = ";"}

LeftOf(f) == SubSeq(f, 1, (CHOOSE k \in Semis(f) : TRUE) - 1)

RightOf(f) == SubSeq(f, (CHOOSE k \in Semis(f) : TRUE) + 1, Len(f))

WellFormed(f) ==
    /\ Cardinality(Semis(f)) = 1
    /\ IsNumber(LeftOf(f))
    /\ IsNumber(RightOf(f))

PointOf(f) == <<NumberOf(LeftOf(f)), NumberOf(RightOf(f))>>

GoodFields(row) == {k \in 1..Len(row) : WellFormed(row[k])}

\* C8: create_shape returns exactly the points of the well-formed fields of
\* the record, in field order; a field that does not split on ';' into two
\* sub-tokens, or one of whose sub-tokens is no number, is skipped whole and
\* takes no other field with it.
C8_CreateShapeKeepsWellFormedFields ==
    parsed # None =>
        LET row == CsvRow(line)
            good == GoodFields(row)
        IN  /\ Len(Val(parsed)) = Cardinality(good)
            /\ \A k \in good :
                   Val(parsed)[Cardinality({g \in good : g <= k})] = PointOf(row[k])

\* a record whose first field has a sub-token that is no number and whose
\* second field is well formed
C8_Witness ==
    /\ parsed # None
    /\ LET row == CsvRow(line)
       IN  /\ Len(row) = 2
           /\ Len(Split(row[1], ";")) = 2
           /\ ~WellFormed(row[1])
           /\ WellFormed(row[2])
           /\ Len(Val(parsed)) = 1

(***************************************************************************)
(* One Shape: area(), circumference() and affine_transform() called on it  *)
(***************************************************************************)
MaxVerts == 4

MaxScale == 3

Points == {<<FromInt(x), FromInt(y)>> : x \in {-1, 0, 2}, y \in {0, 1}}

\* every vertex list of at most MaxVerts points
Polys == UNION {[1..n -> Points] : n \in 0..MaxVerts}

Scale(k) == Matrix(<<k, 0, 0>>, <<0, k, 0>>, <<0, 0, 1>>)

Identity == Matrix(<<1, 0, 0>>, <<0, 1, 0>>, <<0, 0, 1>>)

ThirdRows == {<<FromInt(0), FromInt(0), FromInt(1)>>, <<FromInt(1), FromInt(2), FromInt(3)>>}

WithThirdRow(m, r) == <<m[1], m[2], r>>

Matrices ==
    {WithThirdRow(m, r) :
        m \in {Scale(k) : k \in 0..MaxScale} \cup {Identity, transformation_matrix},
        r \in ThirdRows}

InitShape ==
    /\ verts \in Polys
    /\ matrix = None /\ op = "new" /\ res = None
    /\ i = 0 /\ acc = 0 /\ visited = <<>>
    /\ csvOff /\ rowOff

\* area(): the length test and the initialisation of the loop
AreaCall ==
    /\ op = "new"
    /\ IF Len(verts) < 3
       THEN op' = "area_raised" /\ UNCHANGED <<i, acc>>
       ELSE op' = "area_loop" /\ i' = 0 /\ acc' = 0
    /\ UNCHANGED <<verts, matrix, res, visited, csvVars, rowVars>>

\* area(): one pass through the loop, and the return after the last
AreaIter ==
    /\ op = "area_loop"
    /\ LET b == AreaBody(verts, i, acc)
       IN  /\ acc' = b.acc
           /\ i' = b.i
           /\ visited' = Append(visited, i)
           /\ IF b.done
              THEN op' = "area_returned" /\ res' = Some(AreaReturn(b.acc))
              ELSE UNCHANGED <<op, res>>
    /\ UNCHANGED <<verts, matrix, csvVars, rowVars>>

\* circumference()
CircCall ==
    /\ op = "new"
    /\ LET c == circumference(verts)
       IN  IF c.ok
           THEN op' = "circ_returned" /\ res' = Some(c.val)
           ELSE op' = "circ_raised" /\ UNCHANGED res
    /\ UNCHANGED <<verts, matrix, i, acc, visited, csvVars, rowVars>>

\* affine_transform(m): res is the vertex list of the Shape it returns
TransformCall ==
    /\ op = "new"
    /\ \E m \in Matrices :
           /\ matrix' = m
           /\ res' = Some(affine_transform(verts, m))
    /\ op' = "transformed"
    /\ UNCHANGED <<verts, i, acc, visited, csvVars, rowVars>>

NextShape == AreaCall \/ AreaIter \/ CircCall \/ TransformCall

SpecShape == InitShape /\ [][NextShape]_vars

\* the interpreter runs a loop it has entered
FairSpecShape == SpecShape /\ WF_vars(AreaIter)

\* the shoelace sum, edge by edge from the last edge down
Cross(p, q) == (p[1] * q[2] - q[1] * p[2]) \div 2

RECURSIVE ShoelaceSum(_, _)
ShoelaceSum(vs, k) ==
    IF k = 0 THEN 0
    ELSE Cross(vs[k], vs[IF k = Len(vs) THEN 1 ELSE k + 1]) + ShoelaceSum(vs, k - 1)

AreaPost ==
    /\ op \in {"area_loop", "area_returned"} => Len(verts) >= 3
    /\ op = "area_loop" => i < Len(verts) /\ visited = [k \in 1..i |-> k - 1]
    /\ op = "area_returned" =>
           /\ visited = [k \in 1..Len(verts) |-> k - 1]
           /\ 2 * Val(res) = Abs(ShoelaceSum(verts, Len(verts)))
           /\ Val(res) >= 0
    /\ op = "area_raised" => Len(verts) < 3 /\ res = None

\* C4: with n >= 3 vertices area() visits the edges 0 .. n-1 once each, the
\* last one closing back to vertex 0, ends, and returns |shoelace sum| / 2,
\* which is not negative; with fewer than 3 vertices it raises and returns
\* nothing.
C4_AreaIsShoelace == []AreaPost /\ (op = "area_loop" ~> op = "area_returned")

\* a quadrilateral of positive area, all four edges visited
C4_Witness ==
    /\ op = "area_returned"
    /\ Len(verts) = 4
    /\ visited = <<0, 1, 2, 3>>
    /\ Val(res) > 0

Rotate(vs, k) == [j \in 1..Len(vs) |-> vs[((j - 1 + k) % Len(vs)) + 1]]

Reverse(vs) == [j \in 1..Len(vs) |-> vs[Len(vs) + 1 - j]]

C6_AffineTransform ==
    [][op = "new" /\ op' = "transformed" =>
           /\ verts' = verts
           /\ Len(Val(res')) = Len(verts)
           /\ \A k \in 1..Len(verts) :
                  LET x == verts[k][1]
                      y == verts[k][2]
                      m == matrix'
                  IN  Val(res')[k] =
                          <<(m[1][1] * x + m[1][2] * y) \div 2 + m[1][3],
                            (m[2][1] * x + m[2][2] * y) \div 2 + m[2][3]>>
           /\ \A r \in ThirdRows :
                  affine_transform(verts, WithThirdRow(matrix', r)) = Val(res')]_vars

\* a two-vertex Shape moved by a matrix whose third row is not (0, 0, 1)
C6_Witness ==
    /\ op = "transformed"
    /\ Len(verts) = 2
    /\ Len(Val(res)) = 2
    /\ matrix[3] # <<FromInt(0), FromInt(0), FromInt(1)>>
    /\ matrix[1][3] # 0
    /\ Val(res) # verts

MaxRecords == 11

MaxOther == 2

\* range(10) of the report
TopK == 10

\* lines of the file: three triangles, a record of two vertices and a field
\* that is no point, and an empty line
Big == <<"0", ";", "0", ",", "4", ";", "0", ",", "0", ";", "4">>

Mid == <<"0", ";", "0", ",", "4", ";", "0", ",", "4", ";", "3">>

Small == <<"0", ";", "0", ",", "2", ";", "0", ",", "0", ";", "2">>

Seg == <<"0", ";", "0", ",", "1", ";", "-", ",", "1", ";", "1">>

Blank == <<>>

Others == {Small, Seg, Blank}

\* a file is its lines, the header first: here Mid, then n records that are
\* Big but at the places P, where they are f[k]
FileOf(n, P, f) == <<Mid>> \o [k \in 1..n |-> IF k \in P THEN f[k] ELSE Big]

\* id(self) of the k-th Shape constructed: any numbers, different for
\* objects that are alive together
IdMaps ==
    {[k \in 1..(MaxRecords + 2) |-> 100 + k],
     [k \in 1..(MaxRecords + 2) |-> 100 + ((7 * k) % 17)]}

Init ==
    /\ pc = "open"
    /\ exists \in BOOLEAN
    /\ \/ file = <<>>
       \/ /\ exists
          /\ \E n \in 0..MaxRecords :
                 \E P \in SUBSET (1..n) :
                     /\ Cardinality(P) <= MaxOther
                     /\ \E f \in [P -> Others] : file = FileOf(n, P, f)
    /\ ids \in IdMaps
    /\ shapes = <<>> /\ areas = <<>> /\ circumferences = <<>> /\ out = <<>>
    /\ moved = <<>> /\ transformed = None /\ tarea = None /\ status = None
    /\ err = ""
    /\ rowOff /\ shapeOff

\* a Shape that is false when it has no vertex
TruthyNonEmpty(shape) == Len(shape.vertices) > 0

\* Shape defines neither __bool__ nor __len__: every Shape is true
Truthy(shape) == TRUE

\* for row in reader: shape = create_shape(row); if shape: shapes.append(shape)
RECURSIVE IngestFrom(_, _, _, _)
IngestFrom(f, idmap, k, acc_shapes) ==
    IF k > Len(f) THEN acc_shapes
    ELSE LET shape == [id |-> idmap[k - 1], vertices |-> create_shape(CsvRow(f[k]))]
         IN  IF Truthy(shape)
             THEN IngestFrom(f, idmap, k + 1, Append(acc_shapes, shape))
             ELSE IngestFrom(f, idmap, k + 1, acc_shapes)

\* the metric loop leaving at the first ValueError
RECURSIVE MetricsFromBreak(_, _, _, _)
MetricsFromBreak(ss, k, as, cs) ==
    IF k > Len(ss) THEN [areas |-> as, circumferences |-> cs]
    ELSE LET a == area(ss[k].vertices)
             c == circumference(ss[k].vertices)
         IN  IF ~a.ok THEN [areas |-> as, circumferences |-> cs]
             ELSE IF ~c.ok THEN [areas |-> Append(as, <<ss[k].id, a.val>>), circumferences |-> cs]
             ELSE MetricsFromBreak(ss, k + 1, Append(as, <<ss[k].id, a.val>>),
                                              Append(cs, <<ss[k].id, c.val>>))

\* for shape in shapes: the two appends, or the ValueError and continue
RECURSIVE MetricsFrom(_, _, _, _)
MetricsFrom(ss, k, as, cs) ==
    IF k > Len(ss) THEN [areas |-> as, circumferences |-> cs]
    ELSE LET a == area(ss[k].vertices)
             c == circumference(ss[k].vertices)
         IN  IF ~a.ok THEN MetricsFrom(ss, k + 1, as, cs)
             ELSE IF ~c.ok THEN MetricsFrom(ss, k + 1, Append(as, <<ss[k].id, a.val>>), cs)
             ELSE MetricsFrom(ss, k + 1, Append(as, <<ss[k].id, a.val>>),
                                         Append(cs, <<ss[k].id, c.val>>))

\* an ascending sort read backwards: e goes in front of its equals
InsertDescBeforeTies(sorted, e) ==
    LET before == {j \in 1..Len(sorted) : sorted[j][2] > e[2]}
        n == Cardinality(before)
    IN  SubSeq(sorted, 1, n) \o <<e>> \o SubSeq(sorted, n + 1, Len(sorted))

\* the place of e in a list sorted by value, largest first: behind every
\* entry that is not smaller
InsertDesc(sorted, e) ==
    LET before == {j \in 1..Len(sorted) : sorted[j][2] >= e[2]}
        n == Cardinality(before)
    IN  SubSeq(sorted, 1, n) \o <<e>> \o SubSeq(sorted, n + 1, Len(sorted))

RECURSIVE SortFrom(_, _, _)
SortFrom(list, k, sorted) ==
    IF k > Len(list) THEN sorted
    ELSE SortFrom(list, k + 1, InsertDesc(sorted, list[k]))

\* sorted(list, key=lambda x: x[1], reverse=True): stable
SortedDesc(list) == SortFrom(list, 1, <<>>)

\* for i in range(10): print(...): the entries read, and whether areas[i]
\* or circumferences[i] raised IndexError
RECURSIVE ReportFrom(_, _, _, _)
ReportFrom(as, cs, k, printed) ==
    IF k >= TopK THEN [out |-> printed, raised |-> FALSE]
    ELSE IF k >= Len(as) \/ k >= Len(cs) THEN [out |-> printed, raised |-> TRUE]
    ELSE ReportFrom(as, cs, k + 1, Append(printed, <<as[k + 1], cs[k + 1]>>))

\* the lookup taking the first shape of the collection
FindFromFirst(ss, shape_id, k) == IF k > Len(ss) THEN <<>> ELSE <<k>>

\* for shape in shapes: if shape.id == shape_id: ... break
\* the indexes of the shapes the loop calls affine_transform on
RECURSIVE FindFrom(_, _, _)
FindFrom(ss, shape_id, k) ==
    IF k > Len(ss) THEN <<>>
    ELSE IF ss[k].id = shape_id THEN <<k>>
    ELSE FindFrom(ss, shape_id, k + 1)

\* open(path) raises FileNotFoundError: print and return 1
OpenMissing ==
    /\ pc = "open" /\ ~exists
    /\ status' = Some(1)
    /\ pc' = "done"
    /\ UNCHANGED <<exists, file, ids, shapes, areas, circumferences, out, moved,
                   transformed, tarea, err, rowVars, shapeVars>>

\* next(csvfile) on a file of no line raises StopIteration, which nothing catches
OpenEmpty ==
    /\ pc = "open" /\ exists /\ Len(file) = 0
    /\ err' = "StopIteration"
    /\ pc' = "crashed"
    /\ UNCHANGED <<exists, file, ids, shapes, areas, circumferences, out, moved,
                   transformed, tarea, status, rowVars, shapeVars>>

\* open(path) and next(csvfile): the header is read past
OpenHeader ==
    /\ pc = "open" /\ exists /\ Len(file) > 0
    /\ pc' = "ingest"
    /\ UNCHANGED <<exists, file, ids, shapes, areas, circumferences, out, moved,
                   transformed, tarea, status, err, rowVars, shapeVars>>

\* the loop over the reader, from the line after the header
Ingest ==
    /\ pc = "ingest"
    /\ shapes' = IngestFrom(file, ids, 2, shapes)
    /\ pc' = "metrics"
    /\ UNCHANGED <<exists, file, ids, areas, circumferences, out, moved,
                   transformed, tarea, status, err, rowVars, shapeVars>>

\* the loop over shapes that fills areas and circumferences
Metrics ==
    /\ pc = "metrics"
    /\ LET m == MetricsFrom(shapes, 1, areas, circumferences)
       IN  areas' = m.areas /\ circumferences' = m.circumferences
    /\ pc' = "sort"
    /\ UNCHANGED <<exists, file, ids, shapes, out, moved,
                   transformed, tarea, status, err, rowVars, shapeVars>>

\* the two sorted() calls
Sort ==
    /\ pc = "sort"
    /\ areas' = SortedDesc(areas)
    /\ circumferences' = SortedDesc(circumferences)
    /\ pc' = "report"
    /\ UNCHANGED <<exists, file, ids, shapes, out, moved,
                   transformed, tarea, status, err, rowVars, shapeVars>>

\* the ten ranking lines; out holds the entries whose values are printed
Report ==
    /\ pc = "report"
    /\ LET r == ReportFrom(areas, circumferences, 0, out)
       IN  /\ out' = r.out
           /\ ~r.raised
    /\ pc' = "transform"
    /\ UNCHANGED <<exists, file, ids, shapes, areas, circumferences, moved,
                   transformed, tarea, status, err, rowVars, shapeVars>>

\* the ranking lines there are, then IndexError, which nothing catches
ReportIndexError ==
    /\ pc = "report"
    /\ LET r == ReportFrom(areas, circumferences, 0, out)
       IN  /\ out' = r.out
           /\ r.raised
    /\ err' = "IndexError"
    /\ pc' = "crashed"
    /\ UNCHANGED <<exists, file, ids, shapes, areas, circumferences, moved,
                   transformed, tarea, status, rowVars, shapeVars>>

\* shape_id = areas[0][0], the lookup loop, affine_transform and area()
Transform ==
    /\ pc = "transform"
    /\ LET found == FindFrom(shapes, areas[1][1], 1)
       IN  /\ moved' = found
           /\ IF found = <<>>
              THEN UNCHANGED <<transformed, tarea>>
              ELSE LET new == [id |-> ids[Len(shapes) + 1],
                               vertices |-> affine_transform(shapes[found[1]].vertices,
                                                             transformation_matrix)]
                   IN  /\ transformed' = Some(new)
                       /\ tarea' = Some(area(new.vertices).val)
    /\ pc' = "return"
    /\ UNCHANGED <<exists, file, ids, shapes, areas, circumferences, out,
                   status, err, rowVars, shapeVars>>

\* return 0
Return ==
    /\ pc = "return"
    /\ status' = Some(0)
    /\ pc' = "done"
    /\ UNCHANGED <<exists, file, ids, shapes, areas, circumferences, out, moved,
                   transformed, tarea, err, rowVars, shapeVars>>

Next ==
    \/ OpenMissing \/ OpenEmpty \/ OpenHeader
    \/ Ingest \/ Metrics \/ Sort
    \/ Report \/ ReportIndexError
    \/ Transform \/ Return

Spec == Init /\ [][Next]_vars

\* where parse_csv has got to
AfterReport == pc \in {"transform", "return"} \/ (pc = "done" /\ exists)

AfterMetrics == pc \in {"sort", "report"} \/ err = "IndexError" \/ AfterReport

AfterIngest == pc = "metrics" \/ AfterMetrics

\* the shapes that have at least 3 vertices, by place in the collection
Valid == {k \in 1..Len(shapes) : Len(shapes[k].vertices) >= 3}

AreaOf(k) == area(shapes[k].vertices).val

\* the place in the collection of the shape an entry names
PlaceOf(entry) == CHOOSE k \in 1..Len(shapes) : shapes[k].id = entry[1]

\* the area entries of the ranking lines output
Reported == [j \in 1..Len(out) |-> out[j][1]]

C2_AlwaysReturnsStatus ==
    /\ pc # "crashed"
    /\ pc = "done" /\ exists => status = Some(0)
    /\ pc = "done" /\ ~exists => status = Some(1) /\ out = <<>>

EntriesOf(list, k) == {j \in 1..Len(list) : list[j][1] = shapes[k].id}

\* C3: after the metric pass a polygon has an entry in areas exactly when it
\* has one in circumferences, exactly when it has at least 3 vertices, and
\* then one entry in each, its area and its circumference; with fewer than 3
\* vertices both area() and circumference() raise, and the polygons behind
\* it are processed all the same.
C3_MetricsSkipAndContinue ==
    [][pc = "metrics" /\ pc' # "metrics" =>
           \A k \in 1..Len(shapes) :
               IF k \in Valid
               THEN /\ \E j \in 1..Len(areas') :
                           /\ EntriesOf(areas', k) = {j}
                           /\ areas'[j] = <<shapes[k].id, AreaOf(k)>>
                    /\ \E j \in 1..Len(circumferences') :
                           /\ EntriesOf(circumferences', k) = {j}
                           /\ circumferences'[j] =
                                  <<shapes[k].id, circumference(shapes[k].vertices).val>>
               ELSE /\ ~area(shapes[k].vertices).ok
                    /\ ~circumference(shapes[k].vertices).ok
                    /\ EntriesOf(areas', k) = {}
                    /\ EntriesOf(circumferences', k) = {}]_vars

\* a polygon of fewer than 3 vertices with a polygon of 3 behind it
C3_Witness ==
    /\ pc = "sort"
    /\ \E k \in 1..Len(shapes) :
           /\ k \notin Valid
           /\ k + 1 \in Valid
           /\ EntriesOf(areas, k) = {}
           /\ EntriesOf(areas, k + 1) # {}
           /\ EntriesOf(circumferences, k + 1) # {}

\* C9: the transform step calls affine_transform on one polygon, the one
\* whose id is at rank 1 of the area list: a polygon of the largest area,
\* the first such in input order; the new Shape is its image, the area
\* reported is area() of the new Shape, and the collection and the two
\* ranking lists are as they were.
C9_TransformsRankOne ==
    [][pc = "transform" /\ pc' # "transform" =>
           /\ Len(moved') = 1
           /\ LET k == moved'[1]
              IN  /\ k \in Valid
                  /\ shapes[k].id = areas[1][1]
                  /\ \A k2 \in 1..Len(shapes) : shapes[k2].id = shapes[k].id => k2 = k
                  /\ \A k2 \in Valid :
                         \/ AreaOf(k2) < AreaOf(k)
                         \/ AreaOf(k2) = AreaOf(k) /\ k2 >= k
                  /\ Val(transformed').vertices =
                         affine_transform(shapes[k].vertices, transformation_matrix)
                  /\ area(Val(transformed').vertices).ok
                  /\ tarea' = Some(area(Val(transformed').vertices).val)
           /\ shapes' = shapes
           /\ areas' = areas
           /\ circumferences' = circumferences]_vars

\* the polygon transformed is not the first of the collection and shares the
\* largest area with a later one
C9_Witness ==
    /\ pc = "return"
    /\ Len(moved) = 1
    /\ moved[1] > 1
    /\ \E k2 \in Valid : k2 > moved[1] /\ AreaOf(k2) = AreaOf(moved[1])
    /\ tarea # None

\* C10: after ingestion the collection holds one polygon for each record
\* behind the header, in input order, built from that record: none is left
\* out, not the records of 0, 1 or 2 vertices, and the header gives none.
C10_OnePolygonPerRecord ==
    [][/\ pc = "ingest" /\ pc' # "ingest" =>
              /\ Len(shapes') = Len(file) - 1
              /\ \A k \in 1..Len(shapes') :
                     shapes'[k].vertices = create_shape(CsvRow(file[k + 1]))
       /\ AfterIngest => shapes' = shapes /\ file' = file]_vars

\* a collection holding a polygon of no vertex and one of two vertices
C10_Witness ==
    /\ pc = "metrics"
    /\ Len(shapes) = Len(file) - 1
    /\ \E k \in 1..Len(shapes) : Len(shapes[k].vertices) = 0
    /\ \E k \in 1..Len(shapes) : Len(shapes[k].vertices) = 2

====
